---------------------------- MODULE Spec2Model ----------------------------
(***************************************************************************)
(* A model of tools/releasetools/sparse_img.py (class SparseImage): the    *)
(* parser of the Android sparse image container, the range reader          *)
(* _GetRangeData, TotalSha1, LoadFileBlockMap and ResetFileMap.            *)
(*                                                                         *)
(* The container is a flat sequence of bytes.  The parser decodes it with  *)
(* little-endian reads at byte offsets, exactly as struct.unpack does, and *)
(* the file object is a position into that sequence (seek sets it, read    *)
(* returns the bytes after it and advances it).  Python 2 semantics: str   *)
(* and the result of file.read() are the same type, so data == reference   *)
(* compares bytes.                                                         *)
(***************************************************************************)
EXTENDS Integers, Sequences, FiniteSets, TLC

VARIABLES file, img, gen, out, sha

vars == <<file, img, gen, out, sha>>

-----------------------------------------------------------------------------
(* Bounds of the enumeration of inputs.                                    *)

\* chunks in a container of the parser specification
MaxChunks == 3
\* largest declared block count of one chunk (0 is included)
MaxChunkBlocks == 2
\* block sizes are 2, 4, ..., 2 * MaxHalfWords bytes
MaxHalfWords == 4
\* chunks in a container of the reader / loader specifications
MaxDataChunks == 3
\* lines of a block map
MaxLines == 2
\* chunks in a container of the specifications of calls in sequence
MaxOpsChunks == 2
\* TotalSha1 calls on one image
MaxDigests == 2

-----------------------------------------------------------------------------
(* Program constants.                                                      *)

FILE_HDR_SZ == 28
CHUNK_HDR_SZ == 12
FILL_SZ == 4
CHUNK_RAW == 51905
CHUNK_FILL == 51906
CHUNK_DONT_CARE == 51907
CHUNK_CRC32 == 51908
\* 0xED26FF3A, little-endian
MAGIC == <<58, 255, 38, 237>>

None == "None"

Min(a, b) == IF a < b THEN a ELSE b

-----------------------------------------------------------------------------
(* Byte-level helpers: the file object and struct.unpack.                  *)

\* f.read(n) with the file position at p: the bytes [p, p+n), cut at EOF
\* (a negative n reads to EOF)
ReadAt(f, p, n) ==
  IF n = 0 \/ p >= Len(f) THEN << >>
  ELSE IF n < 0 THEN SubSeq(f, p + 1, Len(f))
  ELSE SubSeq(f, p + 1, Min(p + n, Len(f)))

\* f.seek(p, os.SEEK_SET) with the file position at cur: the new position
SeekSet(cur, p) == p

\* struct.unpack "<H" and "<I" of the bytes at offset p
U16(f, p) == f[p + 1] + 256 * f[p + 2]
U32(f, p) == U16(f, p) + 65536 * U16(f, p + 2)

\* the encodings the container's producer writes
LE16(v) == <<v % 256, (v \div 256) % 256>>
LE32(v) == LE16(v % 65536) \o LE16(v \div 65536)

RECURSIVE Repeat(_, _)
Repeat(s, n) == IF n <= 0 THEN << >> ELSE s \o Repeat(s, n - 1)

RECURSIVE Concat(_)
Concat(ss) == IF ss = << >> THEN << >> ELSE Head(ss) \o Concat(Tail(ss))

-----------------------------------------------------------------------------
(* rangelib.RangeSet.  A range set is held as the set of its blocks; its   *)
(* iteration yields the maximal half-open intervals in ascending order.    *)

\* RangeSet(data): data alternates start and end block numbers
RangeSet(data) ==
  UNION { data[2 * i - 1] .. (data[2 * i] - 1) : i \in 1..(Len(data) \div 2) }

RS_size(r) == Cardinality(r)
RS_intersect(a, b) == a \cap b
RS_subtract(a, b) == a \ b

\* RangeSet.parse(text): text is <<count, s1, e1, s2, e2, ...>>
RS_parse(text) == RangeSet(Tail(text))

SetMin(S) == CHOOSE x \in S : \A y \in S : x <= y
SetMax(S) == CHOOSE x \in S : \A y \in S : y <= x

\* for s, e in ranges
RECURSIVE RS_iter(_)
RS_iter(r) ==
  IF r = {} THEN << >>
  ELSE LET s == SetMin(r)
           e == SetMin({x \in (s + 1)..(SetMax(r) + 1) : x \notin r})
       IN  <<<<s, e>>>> \o RS_iter(r \ (s..(e - 1)))

-----------------------------------------------------------------------------
(* The containers given to the program.  A container is described by its   *)
(* header fields and its chunk table and written out as bytes.             *)

CHUNK_OTHER == CHUNK_CRC32 + 1
BAD_MAGIC == <<58, 255, 38, 236>>

ZeroFill == <<0, 0, 0, 0>>
Patterns == {ZeroFill, <<0, 0, 0, 1>>}

BlockSizes == {2 * k : k \in 1..MaxHalfWords}

\* a raw payload byte at file offset p of payload kind k; j is the block's
\* number within its chunk and last tells whether it is the block's last byte.
\* "U": every byte differs from its neighbours and from zero;
\* "M": even blocks are all zero, odd blocks are zero but for their last byte.
RawByte(k, p, j, last) ==
  IF k = "U" THEN (p % 251) + 1
  ELSE IF last /\ j % 2 = 1 THEN 1 ELSE 0

RawPayload(k, at, n, blk_sz) ==
  [x \in 1..n |->
     RawByte(k, at + x - 1, (x - 1) \div blk_sz, (x % blk_sz) = 0)]

\* the payload that follows the header of chunk c, the header being at offset at
Payload(c, at, blk_sz) ==
  CASE c.type = CHUNK_RAW ->
         RawPayload(c.kind, at + CHUNK_HDR_SZ, c.total - CHUNK_HDR_SZ, blk_sz)
    [] c.type = CHUNK_FILL -> c.pat
    [] OTHER -> Repeat(<<0>>, c.total - CHUNK_HDR_SZ)

ChunkHeaderBytes(c) == LE16(c.type) \o LE16(0) \o LE32(c.sz) \o LE32(c.total)

\* the chunk table as it lies in the file: every chunk with its offset and payload
RECURSIVE Laid(_, _, _)
Laid(cs, at, blk_sz) ==
  IF cs = << >> THEN << >>
  ELSE LET c == Head(cs)
           d == Payload(c, at, blk_sz)
       IN  <<[type |-> c.type, sz |-> c.sz, total |-> c.total, off |-> at,
              data |-> d]>>
           \o Laid(Tail(cs), at + CHUNK_HDR_SZ + Len(d), blk_sz)

RECURSIVE TableBytes(_)
TableBytes(ls) ==
  IF ls = << >> THEN << >>
  ELSE ChunkHeaderBytes(Head(ls)) \o Head(ls).data \o TableBytes(Tail(ls))

HeaderBytes(h) ==
  h.magic \o LE16(h.major) \o LE16(h.minor) \o LE16(h.file_hdr_sz) \o
  LE16(h.chunk_hdr_sz) \o LE32(h.blk_sz) \o LE32(h.total_blks) \o
  LE32(h.total_chunks) \o LE32(0)

RECURSIVE SumSz(_)
SumSz(cs) == IF cs = << >> THEN 0 ELSE Head(cs).sz + SumSz(Tail(cs))

GoodHeader(blk_sz, cs) ==
  [magic |-> MAGIC, major |-> 1, minor |-> 0, file_hdr_sz |-> FILE_HDR_SZ,
   chunk_hdr_sz |-> CHUNK_HDR_SZ, blk_sz |-> blk_sz,
   total_blks |-> SumSz(cs), total_chunks |-> Len(cs)]

\* a header with one field changed, or the declared chunk count one more
\* than the table holds
BadHeaders(blk_sz, cs) ==
  LET g == GoodHeader(blk_sz, cs)
  IN  {[g EXCEPT !.magic = BAD_MAGIC], [g EXCEPT !.major = 2],
       [g EXCEPT !.minor = 1], [g EXCEPT !.file_hdr_sz = 32],
       [g EXCEPT !.chunk_hdr_sz = 16],
       [g EXCEPT !.magic = BAD_MAGIC, !.chunk_hdr_sz = 16],
       [g EXCEPT !.total_chunks = Len(cs) + 1]}

\* a container: the header fields and the chunk table that were written (with
\* every chunk's offset and payload), and the bytes, which are all the
\* program reads
MkFile(h, cs) ==
  LET ls == Laid(cs, FILE_HDR_SZ, h.blk_sz)
  IN  [hdr |-> h, chunks |-> ls, bytes |-> HeaderBytes(h) \o TableBytes(ls)]

Bytes(c) == c.bytes

\* chunks the parser accepts
RawChunks(blk_sz, n) ==
  {[type |-> CHUNK_RAW, sz |-> z, total |-> CHUNK_HDR_SZ + z * blk_sz,
    kind |-> k, pat |-> << >>] :
     z \in 0..n, k \in {"U", "M"}}
FillChunks(n) ==
  {[type |-> CHUNK_FILL, sz |-> z, total |-> CHUNK_HDR_SZ + FILL_SZ,
    kind |-> "F", pat |-> p] : z \in 0..n, p \in Patterns}
DontCareChunks(n) ==
  {[type |-> CHUNK_DONT_CARE, sz |-> z, total |-> CHUNK_HDR_SZ,
    kind |-> "D", pat |-> << >>] : z \in 0..n}
GoodChunks(blk_sz, n) ==
  {c \in RawChunks(blk_sz, n) : c.sz > 0 \/ c.kind = "U"}
    \cup FillChunks(n) \cup DontCareChunks(n)

\* chunks the parser rejects: a raw chunk one byte too long, a raw chunk whose
\* total size is less than its header, a don't-care chunk with a payload, a
\* CRC32 chunk, a chunk of no known type
BadChunks(blk_sz) ==
  {[type |-> CHUNK_RAW, sz |-> 1, total |-> CHUNK_HDR_SZ + blk_sz + 1,
    kind |-> "U", pat |-> << >>],
   [type |-> CHUNK_RAW, sz |-> 0, total |-> CHUNK_HDR_SZ - 4,
    kind |-> "U", pat |-> << >>],
   [type |-> CHUNK_DONT_CARE, sz |-> 1, total |-> CHUNK_HDR_SZ + 4,
    kind |-> "D", pat |-> << >>],
   [type |-> CHUNK_CRC32, sz |-> 0, total |-> CHUNK_HDR_SZ + 4,
    kind |-> "C", pat |-> << >>],
   [type |-> CHUNK_OTHER, sz |-> 1, total |-> CHUNK_HDR_SZ,
    kind |-> "O", pat |-> << >>]}

\* chunks the parser accepts, with one kind of payload each
PlainChunks(blk_sz, n) ==
  {c \in GoodChunks(blk_sz, n) : c.kind \in {"U", "D"} \/ c.pat = ZeroFill}

SeqsUpTo(S, n) == UNION {[1..k -> S] : k \in 0..n}

-----------------------------------------------------------------------------
(* SparseImage.__init__: the header and the chunk table.                   *)

NoPos == -1
NoFill == << -1 >>

Handles == {1, 2}
\* no SparseImage(...) call yet, and a call that raised: there is no object
NoImage == [state |-> "none"]
Failed == [state |-> "failed"]

Raise(exc, why, at) == [raised |-> exc, why |-> why, at |-> at]
NoError == Raise(None, "", 0)

\* lines 30-52: the exception the header raises, if any; at is the number of
\* the check that raised it
ParseHeader(f) ==
  IF Len(f) < FILE_HDR_SZ THEN Raise("struct.error", "header", 0)
  ELSE LET magic == ReadAt(f, 0, 4)
           major_version == U16(f, 4)
           minor_version == U16(f, 6)
           file_hdr_sz == U16(f, 8)
           chunk_hdr_sz == U16(f, 10)
       IN  IF magic # MAGIC THEN Raise("ValueError", "magic", 1)
           ELSE IF major_version # 1 \/ minor_version # 0
             THEN Raise("ValueError", "version", 2)
           ELSE IF file_hdr_sz # FILE_HDR_SZ
             THEN Raise("ValueError", "file_hdr_sz", 3)
           ELSE IF chunk_hdr_sz # CHUNK_HDR_SZ
             THEN Raise("ValueError", "chunk_hdr_sz", 4)
           ELSE NoError

\* line 70: the size a raw chunk must declare
RawSizeOk(data_sz, chunk_sz, blk_sz) == data_sz = chunk_sz * blk_sz
\* a variant of line 89 that accepts a don't-care chunk of any size
DontCareSizeOk_Unchecked(data_sz) == TRUE
\* line 89: the size a don't-care chunk must declare
DontCareSizeOk(data_sz) == data_sz = 0

\* a variant of line 93 that leaves the cursor where it was
SkipDontCare_Stay(pos, chunk_sz) == pos
\* line 93: the cursor after a don't-care chunk
SkipDontCare(pos, chunk_sz) == pos + chunk_sz

\* lines 61-100, one iteration for chunk i (from 0) with the file position at
\* fp and the cursor at pos, then the iterations that follow it
RECURSIVE ParseChunks(_, _, _, _, _, _, _, _)
ParseChunks(f, blk_sz, total_chunks, i, fp, pos, care_data, offset_map) ==
  LET done(e) == [error |-> e, care_data |-> care_data,
                  offset_map |-> offset_map, fp |-> fp]
  IN
  IF i = total_chunks THEN done(NoError)
  ELSE IF fp + CHUNK_HDR_SZ > Len(f) THEN done(Raise("struct.error", "chunk", i))
  ELSE
    LET chunk_type == U16(f, fp)
        chunk_sz == U32(f, fp + 4)
        total_sz == U32(f, fp + 8)
        data_sz == total_sz - 12
        tell == fp + CHUNK_HDR_SZ
    IN  CASE chunk_type = CHUNK_RAW ->
               IF ~RawSizeOk(data_sz, chunk_sz, blk_sz)
               THEN done(Raise("ValueError", "raw size", i))
               ELSE ParseChunks(f, blk_sz, total_chunks, i + 1, tell + data_sz,
                                pos + chunk_sz,
                                care_data \o <<pos, pos + chunk_sz>>,
                                Append(offset_map,
                                       <<pos, chunk_sz, tell, NoFill>>))
          [] chunk_type = CHUNK_FILL ->
               LET fill_data == ReadAt(f, tell, FILL_SZ)
               IN  ParseChunks(f, blk_sz, total_chunks, i + 1,
                               tell + Len(fill_data), pos + chunk_sz,
                               care_data \o <<pos, pos + chunk_sz>>,
                               Append(offset_map,
                                      <<pos, chunk_sz, NoPos, fill_data>>))
          [] chunk_type = CHUNK_DONT_CARE ->
               IF ~DontCareSizeOk(data_sz)
               THEN done(Raise("ValueError", "dont care size", i))
               ELSE ParseChunks(f, blk_sz, total_chunks, i + 1, tell,
                                SkipDontCare(pos, chunk_sz), care_data,
                                offset_map)
          [] chunk_type = CHUNK_CRC32 -> done(Raise("ValueError", "crc32", i))
          [] OTHER -> done(Raise("ValueError", "unknown type", i))

\* lines 28-108 without the file map: the image, or the exception
Construct(f) ==
  LET h == ParseHeader(f)
  IN  IF h.raised # None THEN [error |-> h, image |-> Failed]
      ELSE
        LET blk_sz == U32(f, 12)
            total_blks == U32(f, 16)
            total_chunks == U32(f, 20)
            t == ParseChunks(f, blk_sz, total_chunks, 0, FILE_HDR_SZ, 0,
                             << >>, << >>)
            care_map == RangeSet(t.care_data)
        IN  IF t.error.raised # None THEN [error |-> t.error, image |-> Failed]
            ELSE [error |-> NoError,
                  image |->
                    [state |-> "open", simg_f |-> t.fp, blocksize |-> blk_sz,
                     total_blocks |-> total_blks,
                     offset_map |-> t.offset_map,
                     offset_index |->
                       [k \in 1..Len(t.offset_map) |-> t.offset_map[k][1]],
                     care_map |-> care_map,
                     file_map |-> [n \in {"__DATA"} |-> care_map]]]

-----------------------------------------------------------------------------
(* SparseImage._GetRangeData: the generator.                               *)

\* bisect.bisect_right(a, x): the binary search of the library, lo and hi
\* counted from 0
RECURSIVE Bisect(_, _, _, _)
Bisect(a, x, lo, hi) ==
  IF lo >= hi THEN lo
  ELSE LET mid == (lo + hi) \div 2
       IN  IF x < a[mid + 1] THEN Bisect(a, x, lo, mid)
           ELSE Bisect(a, x, mid + 1, hi)

bisect_right(a, x) == Bisect(a, x, 0, Len(a))

\* offset_map[idx] as Python indexes a list: from 0, a negative idx from the end
PyIndex(l, idx) == IF idx < 0 THEN l[Len(l) + idx + 1] ELSE l[idx + 1]
PyInRange(l, idx) == -Len(l) <= idx /\ idx < Len(l)

\* a variant of line 153 that seeks over the next chunk's header from where
\* the file position is, as os.SEEK_CUR would
SeekNext_Relative(cur, filepos) == cur + CHUNK_HDR_SZ
\* line 153: the seek to the start of a following chunk
SeekNext(cur, filepos) == SeekSet(cur, filepos)

\* lines 139-144 and 152-156: the buffer one chunk yields and the file position
\* it leaves; pos is the file position before and at the position sought for a
\* raw chunk
Emit(I, f, pos, at, chunk, this_read) ==
  LET fill_data == chunk[4]
  IN  IF chunk[3] # NoPos
      THEN LET d == ReadAt(f, at, this_read * I.blocksize)
           IN  [buf |-> d, pos |-> at + Len(d)]
      ELSE [buf |-> Repeat(fill_data, this_read * (I.blocksize \div 4)),
            pos |-> pos]

\* a generator object before its first next()
NewGen(ranges) == [ranges |-> RS_iter(ranges), ri |-> 1, to_read |-> 0, idx |-> 0]

\* lines 131-138: the first chunk of the next interval
FirstChunk(I, f, pos, G) ==
  LET s == G.ranges[G.ri][1]
      e == G.ranges[G.ri][2]
      to_read == e - s
      idx == bisect_right(I.offset_index, s) - 1
  IN  IF ~PyInRange(I.offset_map, idx)
      THEN [raised |-> "IndexError", stop |-> TRUE, buf |-> << >>, pos |-> pos,
            gen |-> G]
      ELSE
        LET chunk == PyIndex(I.offset_map, idx)
            chunk_start == chunk[1]
            chunk_len == chunk[2]
            remain == chunk_len - (s - chunk_start)
            this_read == Min(remain, to_read)
            p == chunk[3] + ((s - chunk_start) * I.blocksize)
            r == Emit(I, f, pos, SeekSet(pos, p), chunk, this_read)
        IN  [raised |-> None, stop |-> FALSE, buf |-> r.buf, pos |-> r.pos,
             gen |-> [G EXCEPT !.ri = @ + 1, !.to_read = to_read - this_read,
                               !.idx = idx]]

\* lines 147-157: the next chunk of the interval being read
NextChunk(I, f, pos, G) ==
  LET idx == G.idx + 1
  IN  IF ~PyInRange(I.offset_map, idx)
      THEN [raised |-> "IndexError", stop |-> TRUE, buf |-> << >>, pos |-> pos,
            gen |-> G]
      ELSE
        LET chunk == PyIndex(I.offset_map, idx)
            chunk_len == chunk[2]
            this_read == Min(chunk_len, G.to_read)
            r == Emit(I, f, pos, SeekNext(pos, chunk[3]), chunk, this_read)
        IN  [raised |-> None, stop |-> FALSE, buf |-> r.buf, pos |-> r.pos,
             gen |-> [G EXCEPT !.to_read = @ - this_read, !.idx = idx]]

\* one next() of the generator: it runs to its next yield (buf) or to its end
\* (stop); pos is the position of simg_f before and after
GenStep(I, f, pos, G) ==
  IF G.to_read > 0 THEN NextChunk(I, f, pos, G)
  ELSE IF G.ri > Len(G.ranges)
    THEN [raised |-> None, stop |-> TRUE, buf |-> << >>, pos |-> pos, gen |-> G]
  ELSE FirstChunk(I, f, pos, G)

\* the generator run to its end with nothing else using the file
RECURSIVE Drain(_, _, _, _, _)
Drain(I, f, pos, G, bufs) ==
  LET r == GenStep(I, f, pos, G)
  IN  IF r.stop THEN [raised |-> r.raised, bufs |-> bufs, pos |-> r.pos]
      ELSE Drain(I, f, r.pos, r.gen, Append(bufs, r.buf))

\* lines 110-111
ReadRangeSetOf(I, f, ranges) == Drain(I, f, I.simg_f, NewGen(ranges), << >>)

\* hashlib.sha1 stands for a function of the bytes it was fed, in order
RECURSIVE Digest(_, _)
Digest(h, d) ==
  IF d = << >> THEN h ELSE Digest((h * 257 + Head(d) + 1) % 1000003, Tail(d))

RECURSIVE Sha1Update(_, _)
Sha1Update(h, bufs) ==
  IF bufs = << >> THEN h ELSE Sha1Update(Digest(h, Head(bufs)), Tail(bufs))

\* lines 113-118
TotalSha1Of(I, f) ==
  LET r == Drain(I, f, I.simg_f, NewGen(I.care_map), << >>)
  IN  [raised |-> r.raised, digest |-> Sha1Update(1, r.bufs), pos |-> r.pos]

-----------------------------------------------------------------------------
(* SparseImage.LoadFileBlockMap and ResetFileMap.                          *)

\* out[fn] = ranges
DictSet(d, k, v) == [n \in DOMAIN d \cup {k} |-> IF n = k THEN v ELSE d[n]]
EmptyDict == [n \in {} |-> {}]

\* lines 163-169: the lines of the block map, in order; a line is a name and
\* the text of a range set
RECURSIVE LoadLines(_, _, _)
LoadLines(lines, remaining, outd) ==
  IF lines = << >>
  THEN [raised |-> None, remaining |-> remaining, outd |-> outd]
  ELSE LET fn == Head(lines).name
           ranges == RS_parse(Head(lines).ranges)
           out1 == DictSet(outd, fn, ranges)
       IN  IF RS_size(ranges) # RS_size(RS_intersect(ranges, remaining))
           THEN [raised |-> "AssertionError", remaining |-> remaining,
                 outd |-> out1]
           ELSE LoadLines(Tail(lines), RS_subtract(remaining, ranges), out1)

\* reference[:4]
Slice4(r) == SubSeq(r, 1, Min(4, Len(r)))

\* lines 185-197: is block b equal to the reference; the file position after
ClassifyBlock(I, f, pos, b) ==
  LET reference == Repeat(<<0>>, I.blocksize)
      idx == bisect_right(I.offset_index, b) - 1
      chunk == PyIndex(I.offset_map, idx)
      chunk_start == chunk[1]
      fill_data == chunk[4]
  IN  IF chunk[3] # NoPos
      THEN LET filepos == chunk[3] + (b - chunk_start) * I.blocksize
               at == SeekSet(pos, filepos)
               data == ReadAt(f, at, I.blocksize)
           IN  [zero |-> data = reference, pos |-> at + Len(data)]
      ELSE LET data == IF fill_data = Slice4(reference) THEN reference
                       ELSE NoFill
           IN  [zero |-> data = reference, pos |-> pos]

\* lines 183-202: the blocks of remaining in ascending order
RECURSIVE Classify(_, _, _, _, _, _)
Classify(I, f, pos, blocks, zero_blocks, nonzero_blocks) ==
  IF blocks = {}
  THEN [zero_blocks |-> zero_blocks, nonzero_blocks |-> nonzero_blocks,
        pos |-> pos]
  ELSE LET b == SetMin(blocks)
           c == ClassifyBlock(I, f, pos, b)
       IN  IF c.zero
           THEN Classify(I, f, c.pos, blocks \ {b},
                         zero_blocks \o <<b, b + 1>>, nonzero_blocks)
           ELSE Classify(I, f, c.pos, blocks \ {b},
                         zero_blocks, nonzero_blocks \o <<b, b + 1>>)

\* a variant of line 169 that takes the claimed ranges out of care_map itself
Loaded_InPlace(I, file_map, remaining, pos) ==
  [I EXCEPT !.file_map = file_map, !.simg_f = pos, !.care_map = remaining]
\* lines 160-161 and 204-205: what a completed call leaves in the image
Loaded(I, file_map, remaining, pos) ==
  [I EXCEPT !.file_map = file_map, !.simg_f = pos]

\* lines 159-205: the image after the call and the exception raised, if any
LoadFileBlockMapOf(I, f, lines) ==
  LET l == LoadLines(lines, I.care_map, EmptyDict)
  IN  IF l.raised # None
      THEN [raised |-> l.raised, image |-> [I EXCEPT !.file_map = l.outd]]
      ELSE
        LET c == Classify(I, f, I.simg_f, l.remaining, << >>, << >>)
            out1 == DictSet(l.outd, "__ZERO", RangeSet(c.zero_blocks))
            out2 == DictSet(out1, "__NONZERO", RangeSet(c.nonzero_blocks))
        IN  [raised |-> None, image |-> Loaded(I, out2, l.remaining, c.pos)]

\* a variant of line 210 that adds the entry to the file map as it is
ResetFileMapOf_Keep(I) ==
  [I EXCEPT !.file_map = DictSet(I.file_map, "__DATA", I.care_map)]
\* lines 207-210: the file map is a new dict of one entry
ResetFileMapOf(I) == [I EXCEPT !.file_map = [n \in {"__DATA"} |-> I.care_map]]

\* lines 27-108 with file_map_fn: LoadFileBlockMap runs inside the constructor
ConstructWithMap(f, lines) ==
  LET c == Construct(f)
  IN  IF c.error.raised # None THEN c
      ELSE LET l == LoadFileBlockMapOf(c.image, f, lines)
           IN  IF l.raised # None
               THEN [error |-> Raise(l.raised, "block map", 0), image |-> Failed]
               ELSE [error |-> NoError, image |-> l.image]

-----------------------------------------------------------------------------
(* The calls a user of the class makes.                                    *)

Names == {"a", "b"}

\* the texts of the range sets of one interval within [0, n)
RangeTexts(n) == {t \in {<<2, s, e>> : s \in 0..n, e \in 0..n} : t[2] < t[3]}

\* the block maps of at most k lines over the blocks [0, n), names in N
BlockMaps(N, n, k) ==
  SeqsUpTo({[name |-> fn, ranges |-> t] : fn \in N, t \in RangeTexts(n)}, k)

\* the sets of the blocks of one interval within r
Intervals(r) == {s..e : s \in r, e \in r} \cap SUBSET r


Called(op, h, arg, error, ret) ==
  [op |-> op, h |-> h, arg |-> arg, error |-> error, ret |-> ret]

IsOpen(h) == img[h].state = "open"
CareOf(h) == IF IsOpen(h) THEN img[h].care_map ELSE {}

\* SparseImage(simg_fn)
Open(h) ==
  /\ img[h].state = "none"
  /\ LET c == Construct(Bytes(file))
     IN  /\ img' = [img EXCEPT ![h] = c.image]
         /\ out' = Called("Open", h, None, c.error, None)
  /\ UNCHANGED <<file, gen, sha>>

\* SparseImage(simg_fn, file_map_fn)
OpenWithMap(h, lines) ==
  /\ img[h].state = "none"
  /\ LET c == ConstructWithMap(Bytes(file), lines)
     IN  /\ img' = [img EXCEPT ![h] = c.image]
         /\ out' = Called("OpenWithMap", h, lines, c.error, None)
  /\ UNCHANGED <<file, gen, sha>>

ReadRangeSet(h, ranges) ==
  /\ IsOpen(h)
  /\ LET r == ReadRangeSetOf(img[h], Bytes(file), ranges)
     IN  /\ img' = [img EXCEPT ![h].simg_f = r.pos]
         /\ out' = Called("ReadRangeSet", h, ranges,
                          Raise(r.raised, "", 0), r.bufs)
  /\ UNCHANGED <<file, gen, sha>>

TotalSha1(h) ==
  /\ IsOpen(h)
  /\ Len(sha) < MaxDigests
  /\ LET r == TotalSha1Of(img[h], Bytes(file))
     IN  /\ img' = [img EXCEPT ![h].simg_f = r.pos]
         /\ out' = Called("TotalSha1", h, None, Raise(r.raised, "", 0), r.digest)
         /\ sha' = Append(sha, r.digest)
  /\ UNCHANGED <<file, gen>>

LoadFileBlockMap(h, lines) ==
  /\ IsOpen(h)
  /\ LET r == LoadFileBlockMapOf(img[h], Bytes(file), lines)
     IN  /\ img' = [img EXCEPT ![h] = r.image]
         /\ out' = Called("LoadFileBlockMap", h, lines,
                          Raise(r.raised, "", 0), None)
  /\ UNCHANGED <<file, gen, sha>>

ResetFileMap(h) ==
  /\ IsOpen(h)
  /\ img' = [img EXCEPT ![h] = ResetFileMapOf(img[h])]
  /\ out' = Called("ResetFileMap", h, DOMAIN img[h].file_map, NoError, None)
  /\ UNCHANGED <<file, gen, sha>>

-----------------------------------------------------------------------------
(* Two traversals of _GetRangeData, their next() calls interleaved.        *)

Gens == {1, 2}
IdleGen == [state |-> "idle"]

\* g = image._GetRangeData(ranges): no line of the body runs yet
GenStart(g, h, ranges) ==
  /\ gen[g].state = "idle"
  /\ IsOpen(h)
  /\ gen' = [gen EXCEPT ![g] = [state |-> "active", h |-> h, ranges |-> ranges,
                                 local |-> NewGen(ranges), emitted |-> << >>,
                                 cut |-> FALSE]]
  /\ UNCHANGED <<file, img, out, sha>>

\* the last next() on g's image was the other generator's, between two of g's
CutIn(g) ==
  /\ gen[g].emitted # << >>
  /\ out.op = "next" /\ out.h = gen[g].h /\ out.arg # g

\* next(g): the generator runs to its next yield, or ends
GenNext(g) ==
  /\ gen[g].state = "active"
  /\ LET h == gen[g].h
         r == GenStep(img[h], Bytes(file), img[h].simg_f, gen[g].local)
     IN  /\ img' = [img EXCEPT ![h].simg_f = r.pos]
         /\ gen' = [gen EXCEPT
               ![g] = IF r.stop THEN [@ EXCEPT !.state = "done"]
                      ELSE [@ EXCEPT !.local = r.gen,
                                     !.emitted = Append(@, r.buf),
                                     !.cut = @ \/ CutIn(g)]]
         /\ out' = Called("next", h, g, Raise(r.raised, "", 0), r.buf)
  /\ UNCHANGED <<file, sha>>

-----------------------------------------------------------------------------
(* Specifications.                                                         *)

AllChunks(blk_sz) == PlainChunks(blk_sz, MaxChunkBlocks) \cup BadChunks(blk_sz)

\* the containers given to the parser: blocks of 2 and 4 bytes, any chunk table
\* under a good header, and short tables under a bad one
ParserHeaders(b, cs) ==
  {GoodHeader(b, cs)} \cup (IF Len(cs) <= 1 THEN BadHeaders(b, cs) ELSE {})

ParserFile ==
  \E b \in {2, 4} : \E k \in 0..MaxChunks : \E cs \in [1..k -> AllChunks(b)] :
    \E h \in ParserHeaders(b, cs) : file = MkFile(h, cs)

\* the containers the parser accepts, for the calls on an open image
DataFile(n) ==
  \E b \in BlockSizes : \E k \in 0..n :
    \E cs \in [1..k -> GoodChunks(b, MaxChunkBlocks)] :
      file = MkFile(GoodHeader(b, cs), cs)

InitRest ==
  /\ img = [h \in Handles |-> NoImage]
  /\ gen = [g \in Gens |-> IdleGen]
  /\ out = Called("init", 0, None, NoError, None)
  /\ sha = << >>

InitOpen == ParserFile /\ InitRest
NextOpen == Open(1)
SpecOpen == InitOpen /\ [][NextOpen]_vars

InitRead == DataFile(MaxDataChunks) /\ InitRest
\* one read of any set of care blocks from the image just opened
NextRead ==
  \/ Open(1)
  \/ out.op = "Open" /\ \E r \in SUBSET CareOf(1) : ReadRangeSet(1, r)
SpecRead == InitRead /\ [][NextRead]_vars

\* the containers of the specifications of calls in sequence: accepted chunk
\* tables of at most n chunks, blocks of 2 and 4 bytes
OpsFile(n) ==
  \E b \in {2, 4} : \E k \in 0..n : \E cs \in [1..k -> GoodChunks(b, 2)] :
    file = MkFile(GoodHeader(b, cs), cs)

\* the calls that load a block map, on their own
InitMap == OpsFile(MaxOpsChunks) /\ InitRest
NextMap ==
  \/ Open(1)
  \/ \E m \in BlockMaps(Names, file.hdr.total_blks, MaxLines) : OpenWithMap(1, m)
  \/ /\ out.op = "Open"
     /\ \E m \in BlockMaps(Names, file.hdr.total_blks, MaxLines) :
          LoadFileBlockMap(1, m)
SpecMap == InitMap /\ [][NextMap]_vars

\* the containers of the calls in sequence: at most n chunks, each a raw chunk
\* of one or two blocks, a fill chunk or a don't-care chunk of one block
SeqChunks(b) ==
  {c \in GoodChunks(b, 2) :
     \/ c.kind = "U" /\ c.sz > 0
     \/ c.kind = "F" /\ c.sz = 1 /\ c.pat # ZeroFill
     \/ c.kind = "D" /\ c.sz = 1}

SeqFile(n) ==
  \E b \in {2, 4} : \E k \in 0..n : \E cs \in [1..k -> SeqChunks(b)] :
    file = MkFile(GoodHeader(b, cs), cs)

\* the calls on one image, in any order; a block map has at most one line
Init == SeqFile(MaxOpsChunks) /\ InitRest
Next ==
  \/ Open(1)
  \/ \E m \in BlockMaps({"a"}, file.hdr.total_blks, 1) : LoadFileBlockMap(1, m)
  \/ ResetFileMap(1)
  \/ TotalSha1(1)
  \/ \E n \in (IF IsOpen(1) THEN DOMAIN img[1].file_map ELSE {}) :
       /\ img[1].file_map[n] \subseteq img[1].care_map
       /\ ReadRangeSet(1, img[1].file_map[n])
Spec == Init /\ [][Next]_vars

\* two traversals, on one image or on two images of the same file: the first
\* reads the care range set of image 1, the second an interval of it from
\* image 1 or from image 2; both are created before either runs
InitGen == SeqFile(MaxOpsChunks) /\ InitRest
NextGen ==
  \/ \E h \in Handles : Open(h)
  \/ /\ IsOpen(1) /\ IsOpen(2)
     /\ GenStart(1, 1, CareOf(1))
  \/ /\ gen[1].state = "active"
     /\ \E h \in Handles, r \in Intervals(CareOf(1)) : GenStart(2, h, r)
  \/ /\ gen[2].state # "idle"
     /\ \E g \in Gens : GenNext(g)
SpecGen == InitGen /\ [][NextGen]_vars

-----------------------------------------------------------------------------
(* What was written into the container, against which the parser's result  *)
(* is judged.                                                              *)

\* the chunks the header declares
Declared(c) == SubSeq(c.chunks, 1, Min(c.hdr.total_chunks, Len(c.chunks)))

\* the cursor before chunk i: every chunk before it advances it by its count
RECURSIVE Cursor(_, _)
Cursor(cs, i) == IF i <= 1 THEN 0 ELSE Cursor(cs, i - 1) + cs[i - 1].sz

IsCare(c) == c.type \in {CHUNK_RAW, CHUNK_FILL}
ChunkBlocks(cs, i) == Cursor(cs, i)..(Cursor(cs, i) + cs[i].sz - 1)

CareBlocks(c) ==
  LET cs == Declared(c)
  IN  UNION {ChunkBlocks(cs, i) : i \in {k \in 1..Len(cs) : IsCare(cs[k])}}

DontCareBlocks(c) ==
  LET cs == Declared(c)
  IN  UNION {ChunkBlocks(cs, i) :
               i \in {k \in 1..Len(cs) : cs[k].type = CHUNK_DONT_CARE}}

\* the number of the first header field that is wrong, 0 if none is
HeaderOffence(h) ==
  IF h.magic # MAGIC THEN 1
  ELSE IF h.major # 1 \/ h.minor # 0 THEN 2
  ELSE IF h.file_hdr_sz # FILE_HDR_SZ THEN 3
  ELSE IF h.chunk_hdr_sz # CHUNK_HDR_SZ THEN 4
  ELSE 0

\* why chunk c is malformed, "" if it is not
ChunkOffence(c, blk_sz) ==
  CASE c.type = CHUNK_RAW ->
         IF c.total - CHUNK_HDR_SZ # c.sz * blk_sz THEN "raw size" ELSE ""
    [] c.type = CHUNK_FILL -> ""
    [] c.type = CHUNK_DONT_CARE ->
         IF c.total # CHUNK_HDR_SZ THEN "dont care size" ELSE ""
    [] c.type = CHUNK_CRC32 -> "crc32"
    [] OTHER -> "unknown type"

Offending(c) ==
  {i \in 1..Len(Declared(c)) : ChunkOffence(Declared(c)[i], c.hdr.blk_sz) # ""}

Opened == out.op = "Open" /\ out.error.raised = None

DescRange(d) == d[1]..(d[1] + d[2] - 1)

\* the content of care block b of container c: the bytes of its raw chunk's
\* payload, or its fill chunk's pattern repeated over the block
PatternBlock(pat, blk_sz) == [x \in 1..blk_sz |-> pat[((x - 1) % Len(pat)) + 1]]

DecodedBlock(c, b) ==
  LET cs == Declared(c)
      i == CHOOSE k \in 1..Len(cs) : IsCare(cs[k]) /\ b \in ChunkBlocks(cs, k)
      at == (b - Cursor(cs, i)) * c.hdr.blk_sz
  IN  IF cs[i].type = CHUNK_RAW
      THEN SubSeq(cs[i].data, at + 1, at + c.hdr.blk_sz)
      ELSE PatternBlock(cs[i].data, c.hdr.blk_sz)

RECURSIVE Decoded(_, _)
Decoded(c, blocks) ==
  IF blocks = {} THEN << >>
  ELSE DecodedBlock(c, SetMin(blocks)) \o Decoded(c, blocks \ {SetMin(blocks)})

AllZero(d) == \A x \in 1..Len(d) : d[x] = 0

-----------------------------------------------------------------------------
(* Claims about the parser, checked under SpecOpen.                        *)

\* C2: after the construction of an image from an accepted chunk table, the
\* care range set holds exactly the blocks of the raw and fill chunks, each
\* chunk lying at the cursor that all chunks before it advanced, holds no
\* block of a don't-care chunk, and is the union of the descriptors' ranges.
C2_CareMap ==
  Opened =>
    /\ img[1].care_map = CareBlocks(file)
    /\ img[1].care_map \cap DontCareBlocks(file) = {}
    /\ img[1].care_map =
         UNION {DescRange(img[1].offset_map[k]) :
                  k \in 1..Len(img[1].offset_map)}

\* a table whose care blocks follow a don't-care chunk and are followed by one
C2_Witness ==
  /\ Opened
  /\ img[1].care_map # {}
  /\ 0 \in DontCareBlocks(file)
  /\ \E b \in DontCareBlocks(file) : \A a \in img[1].care_map : a < b

\* C5: a container whose header or chunk table is malformed (magic, version,
\* header sizes, raw size, don't-care size, CRC32 chunk, unknown type) is
\* refused with a ValueError that names the first malformed header field, or
\* else the first malformed chunk of the table, and no image is constructed.
C5_Rejects ==
  out.op = "Open" =>
    LET ho == HeaderOffence(file.hdr)
        co == Offending(file)
    IN  /\ ho # 0 =>
             /\ out.error.raised = "ValueError"
             /\ out.error.at = ho
             /\ img[1] = Failed
        /\ (ho = 0 /\ co # {}) =>
             /\ out.error.raised = "ValueError"
             /\ out.error.at = SetMin(co) - 1
             /\ out.error.why =
                  ChunkOffence(Declared(file)[SetMin(co)], file.hdr.blk_sz)
             /\ img[1] = Failed

\* the table's third chunk is refused after two chunks were accepted
C5_Witness ==
  /\ out.op = "Open"
  /\ out.error.raised = "ValueError"
  /\ out.error.why = "dont care size"
  /\ out.error.at = 2
  /\ Declared(file)[1].type = CHUNK_RAW
  /\ img[1] = Failed

\* C9: the chunk index of an accepted table has one descriptor per raw or fill
\* chunk and none for a don't-care chunk, every descriptor has a block count
\* above 0 and exactly one of a file offset and a fill pattern, the
\* descriptors' start blocks ascend strictly, their ranges do not overlap, and
\* offset_index holds their start blocks in the same order.
C9_ChunkIndex ==
  Opened =>
    LET m == img[1].offset_map
        cs == Declared(file)
    IN  /\ Len(m) = Cardinality({k \in 1..Len(cs) : IsCare(cs[k])})
        /\ \A k \in 1..Len(m) :
             /\ m[k][2] > 0
             /\ (m[k][3] = NoPos) # (m[k][4] = NoFill)
        /\ \A j, k \in 1..Len(m) :
             j < k => /\ m[j][1] < m[k][1]
                      /\ DescRange(m[j]) \cap DescRange(m[k]) = {}
        /\ img[1].offset_index = [k \in 1..Len(m) |-> m[k][1]]


-----------------------------------------------------------------------------
(* Claims about ReadRangeSet, checked under SpecRead.                      *)

\* the descriptors an interval [s, e) is read from: the one the binary search
\* finds holds s, and each one after it starts where the one before ended
Chained(I, s, e) ==
  LET m == I.offset_map
      idx == bisect_right(I.offset_index, s)
  IN  /\ idx >= 1
      /\ s \in DescRange(m[idx])
      /\ \A k \in (idx + 1)..Len(m) :
           m[k - 1][1] + m[k - 1][2] < e => m[k][1] = m[k - 1][1] + m[k - 1][2]

ReadIsExact ==
  /\ out.error.raised = None
  /\ Concat(out.ret) = Decoded(file, out.arg)
  /\ \A k \in 1..Len(RS_iter(out.arg)) :
       Chained(img[1], RS_iter(out.arg)[k][1], RS_iter(out.arg)[k][2])

\* C1: for every parsed image and every set of care blocks, the buffers of
\* ReadRangeSet, concatenated, are the content of the requested blocks in
\* ascending order (a raw block's bytes from its chunk's payload, a fill block
\* as its pattern repeated over the block); the descriptor the binary search
\* finds holds the interval's first block and each further descriptor starts
\* where the one before it ended.
C1_ReadExact == out.op = "ReadRangeSet" => ReadIsExact

\* the same for the images whose block size is a multiple of 4
C1_ReadExactWords ==
  (out.op = "ReadRangeSet" /\ img[1].blocksize % 4 = 0) => ReadIsExact

\* an interval that starts partway through a raw chunk and runs into a fill chunk
C1_ReadSpans ==
  /\ out.op = "ReadRangeSet"
  /\ img[1].blocksize % 4 = 0
  /\ Len(out.ret) >= 2
  /\ \E k \in 1..(Len(img[1].offset_map) - 1) :
       /\ img[1].offset_map[k][3] # NoPos
       /\ img[1].offset_map[k][1] + 1 \in out.arg
       /\ img[1].offset_map[k][1] \notin out.arg
       /\ img[1].offset_map[k + 1][4] # NoFill
       /\ img[1].offset_map[k + 1][1] \in out.arg


-----------------------------------------------------------------------------
(* Claims about LoadFileBlockMap, checked under SpecMap.                   *)

LoadedMap ==
  /\ out.op \in {"LoadFileBlockMap", "OpenWithMap"}
  /\ out.error.raised = None

\* the blocks the lines of a block map claim
Claimed(lines) == UNION {RS_parse(lines[k].ranges) : k \in 1..Len(lines)}

\* does line k pass the containment check: its blocks are care blocks that no
\* line before it claimed
LinePasses(lines, k, care) ==
  RS_parse(lines[k].ranges) \subseteq (care \ Claimed(SubSeq(lines, 1, k - 1)))

DataOnly(I) == [n \in {"__DATA"} |-> I.care_map]

IsPartition(fm, care) ==
  /\ \A n1, n2 \in DOMAIN fm : n1 # n2 => fm[n1] \cap fm[n2] = {}
  /\ UNION {fm[n] : n \in DOMAIN fm} = care

\* C3: after LoadFileBlockMap completes on a block map all of whose lines pass
\* the containment check, the ranges of the file map (the files', __ZERO and
\* __NONZERO) are pairwise disjoint, their union is the care range set, and
\* every line and both synthetic partitions have a key of their own.
C3_Partition ==
  LoadedMap =>
    /\ IsPartition(img[1].file_map, img[1].care_map)
    /\ Cardinality(DOMAIN img[1].file_map) = Len(out.arg) + 2

\* the same for the block maps whose lines have names of their own
C3_PartitionOfDistinctNames ==
  (LoadedMap /\ \A j, k \in 1..Len(out.arg) :
                  j # k => out.arg[j].name # out.arg[k].name) =>
    /\ IsPartition(img[1].file_map, img[1].care_map)
    /\ Cardinality(DOMAIN img[1].file_map) = Len(out.arg) + 2

ClassifiedByContent ==
  \A b \in img[1].care_map \ Claimed(out.arg) :
    /\ b \in img[1].file_map["__ZERO"] <=> AllZero(DecodedBlock(file, b))
    /\ b \in img[1].file_map["__NONZERO"] <=> ~AllZero(DecodedBlock(file, b))

\* C4: every care block that no file claims is classified by its content: it
\* is in __ZERO if and only if the block (its raw bytes, or its fill pattern
\* repeated over the block) is all zero bytes, and in __NONZERO otherwise; so
\* the comparison of a fill pattern with the zero pattern classifies as the
\* comparison of the whole block would.
C4_Classified == LoadedMap => ClassifiedByContent

\* the same for the images whose blocks have at least the 4 bytes of a pattern
C4_ClassifiedWords == (LoadedMap /\ img[1].blocksize >= 4) => ClassifiedByContent

\* C6: LoadFileBlockMap raises as soon as a line fails the containment check,
\* and then nothing of the block map is applied: the file map of an image that
\* was undifferentiated before the call is still the single __DATA entry (and
\* a constructor given the block map returns no image).
C6_NoPartialLoad ==
  out.op \in {"LoadFileBlockMap", "OpenWithMap"} =>
    /\ out.error.raised # None <=>
         \E k \in 1..Len(out.arg) : ~LinePasses(out.arg, k, CareBlocks(file))
    /\ out.error.raised # None =>
         IF out.op = "OpenWithMap" THEN img[1] = Failed
         ELSE img[1].file_map = DataOnly(img[1])

\* the first half of C6: the call raises if and only if some line fails the check
C6_RaisesOnBadLine ==
  out.op \in {"LoadFileBlockMap", "OpenWithMap"} =>
    (out.error.raised = "AssertionError" <=>
       \E k \in 1..Len(out.arg) : ~LinePasses(out.arg, k, CareBlocks(file)))

-----------------------------------------------------------------------------
(* Claims about the calls in sequence, checked under Spec.                 *)

Index(I) == <<I.offset_map, I.offset_index, I.care_map, I.blocksize,
              I.total_blocks>>

\* C7: ResetFileMap, in any state of the image, leaves the file map the single
\* entry __DATA -> care range set; on an undifferentiated image it changes
\* nothing, a second call changes nothing, and no call changes the chunk
\* index, the care range set, blocksize or total_blocks.
C7_Reset ==
  [][out'.op = "ResetFileMap" =>
       /\ img'[1].file_map = DataOnly(img[1])
       /\ DOMAIN img'[1].file_map = {"__DATA"}
       /\ Index(img'[1]) = Index(img[1])
       /\ img'[1].simg_f = img[1].simg_f
       /\ img[1].file_map = DataOnly(img[1]) => img'[1] = img[1]
       /\ ResetFileMapOf(img'[1]) = img'[1]]_vars

\* a reset of a file map that a block map load had differentiated
C7_Witness ==
  /\ out.op = "ResetFileMap"
  /\ {"a", "__ZERO", "__NONZERO"} \subseteq out.arg
  /\ img[1].file_map = DataOnly(img[1])
  /\ img[1].care_map # {}

\* C8: every TotalSha1 call on an image returns the same digest, whatever
\* calls ran in between, and none of these calls changes the care range set,
\* the chunk index, blocksize or total_blocks.
C8_DigestStable ==
  /\ \A i, j \in 1..Len(sha) : sha[i] = sha[j]
  /\ IsOpen(1) => Index(img[1]) = Index(Construct(Bytes(file)).image)

\* a second digest of an image on which a block map was loaded and whose file
\* position the calls have moved
C8_Witness ==
  /\ out.op = "TotalSha1"
  /\ Len(sha) = 2
  /\ "a" \in DOMAIN img[1].file_map
  /\ "__NONZERO" \in DOMAIN img[1].file_map
  /\ img[1].file_map["a"] # {}
  /\ \E k \in 1..Len(img[1].offset_map) : img[1].offset_map[k][3] # NoPos

-----------------------------------------------------------------------------
(* Claims about traversals in turn, checked under SpecGen.                 *)

IsPrefix(a, b) == Len(a) <= Len(b) /\ SubSeq(b, 1, Len(a)) = a

\* what generator g yields when nothing else uses its image's file
Alone(g) ==
  Drain(img[gen[g].h], Bytes(file), img[gen[g].h].simg_f,
        NewGen(gen[g].ranges), << >>).bufs

BothDone == \A g \in Gens : gen[g].state = "done"

=============================================================================
